---- MODULE Spec2Model ----
(***************************************************************************)
(* Model of rae_text: Font::new (src/src/font.rs) builds a glyph atlas,    *)
(* a shared quad mesh and a lookup table from a character list;            *)
(* Renderer::draw_text (src/src/text_renderer.rs) shapes a string and      *)
(* issues one indexed draw per shaped glyph.                               *)
(*                                                                         *)
(* f32 values are exact in the modelled range and are represented as       *)
(* reduced fractions <<numerator, denominator>>.                           *)
(***************************************************************************)
EXTENDS Integers, Sequences, FiniteSets, TLC

\* ------------------------------------------------------------------ bounds
NumChars == 3       \* code points 1..NumChars
MaxChars == 2       \* longest character list given to Font::new
MaxText  == 2       \* longest string given to draw_text
MaxSize  == 2       \* largest FontSize tried (0 is included)
MaxPosition == 16385 \* last list position whose indices are probed

Chars      == 1..NumChars
Sizes      == 0..MaxSize
Faces      == {"identity", "offset", "shared", "broken", "fixed"}
RECURSIVE SeqsUpTo(_, _)
SeqsUpTo(S, n) ==
    IF n = 0 THEN {<<>>}
    ELSE LET shorter == SeqsUpTo(S, n - 1)
         IN  shorter \cup {Append(s, x) : s \in {t \in shorter : Len(t) = n - 1}, x \in S}

\* ------------------------------------------------------ f32 as fractions
RECURSIVE Gcd(_, _)
Gcd(a, b) == IF b = 0 THEN a ELSE Gcd(b, a % b)
Abs(x) == IF x < 0 THEN -x ELSE x
Frac(n, d) ==
    IF d = 0 THEN <<n, 0>>
    ELSE LET g == Gcd(Abs(n), Abs(d)) IN IF g = 0 THEN <<0, 1>> ELSE <<n \div g, d \div g>>
FAdd(a, b) == Frac(a[1] * b[2] + b[1] * a[2], a[2] * b[2])
FInt(n) == <<n, 1>>
VAdd(u, v) == <<FAdd(u[1], v[1]), FAdd(u[2], v[2])>>
VZero == <<FInt(0), FInt(0)>>

\* --------------------------------------------- the rasterization library
\* FT_Get_Char_Index: the face's glyph id of a character.
char_index(face, c) ==
    CASE face = "offset" -> c + 1
      [] face = "shared" -> (c + 1) \div 2
      [] OTHER           -> c

\* FT_Set_Char_Size succeeds on a scalable face whatever the size.
set_char_size_ok(face) == face # "fixed"

\* FT_Load_Char(RENDER) outcome for a character.
load_char_ok(face, c) == ~(face = "broken" /\ c % 2 = 0)

BitmapWidth(face, c) == IF face = "offset" THEN c % 3 ELSE 1 + (c % 2)
BitmapRows(face, c)  == IF face = "offset" THEN (c + 1) % 3 ELSE 1 + ((c \div 2) % 2)
Pixel(c, k)          == 10 * c + k + 1
BitmapLeft(face, c)  == c - 2
BitmapTop(face, c)   == IF face = "offset" THEN c + 1 ELSE c

\* face.ft_face.glyph().bitmap() after load_char(c, RENDER).
Bitmap(face, c) ==
    [width  |-> BitmapWidth(face, c),
     rows   |-> BitmapRows(face, c),
     buffer |-> [k \in 1..(BitmapWidth(face, c) * BitmapRows(face, c)) |-> Pixel(c, k - 1)]]

\* ------------------------------------------------------------ Font::new
RESOLUTION == 300

AsMeshIndex(x) == x % 65536

EmptyMap == [x \in {} |-> 0]
\* font.rs:433, an existing entry kept instead of replaced.
InsertKeepFirst(m, key, v) ==
    IF key \in DOMAIN m THEN m
    ELSE [x \in (DOMAIN m) \cup {key} |-> IF x = key THEN v ELSE m[x]]
Insert(m, key, v) == [x \in (DOMAIN m) \cup {key} |-> IF x = key THEN v ELSE m[x]]

RECURSIVE MaxOf(_)
MaxOf(S) == LET x == CHOOSE y \in S : TRUE
            IN  IF S = {x} THEN x
                ELSE LET r == MaxOf(S \ {x}) IN IF x > r THEN x ELSE r

Zeros(n) == [k \in 1..n |-> 0]

\* glyph_atlas_buffer[range_begin..range_end].copy_from_slice(src)
CopyFromSlice(buf, range_begin, src) ==
    [k \in 1..Len(buf) |->
        IF k > range_begin /\ k <= range_begin + Len(src)
        THEN src[k - range_begin] ELSE buf[k]]

\* font.rs:413, the layer coordinate counted from one.
QuadVerticesNextLayer(gw, gh, W, H, idx) ==
    LET tw == Frac(gw, W)
        th == Frac(gh, H)
        layer == idx + 1
    IN  << [position |-> <<FInt(0), FInt(0)>>,   texture_coordinates |-> <<FInt(0), FInt(0), layer>>],
           [position |-> <<FInt(0), FInt(gh)>>,  texture_coordinates |-> <<FInt(0), th, layer>>],
           [position |-> <<FInt(gw), FInt(gh)>>, texture_coordinates |-> <<tw, th, layer>>],
           [position |-> <<FInt(gw), FInt(0)>>,  texture_coordinates |-> <<tw, FInt(0), layer>>] >>

QuadVertices(gw, gh, W, H, idx) ==
    LET tw == Frac(gw, W)
        th == Frac(gh, H)
    IN  << [position |-> <<FInt(0), FInt(0)>>,   texture_coordinates |-> <<FInt(0), FInt(0), idx>>],
           [position |-> <<FInt(0), FInt(gh)>>,  texture_coordinates |-> <<FInt(0), th, idx>>],
           [position |-> <<FInt(gw), FInt(gh)>>, texture_coordinates |-> <<tw, th, idx>>],
           [position |-> <<FInt(gw), FInt(0)>>,  texture_coordinates |-> <<tw, FInt(0), idx>>] >>

\* font.rs:426-428, the second triangle listed in the opposite order.
QuadIndicesFlipped(vertices_begin) ==
    << vertices_begin, AsMeshIndex(vertices_begin + 1), AsMeshIndex(vertices_begin + 3),
       AsMeshIndex(vertices_begin + 3), AsMeshIndex(vertices_begin + 2),
       AsMeshIndex(vertices_begin + 1) >>

QuadIndices(vertices_begin) ==
    << vertices_begin, AsMeshIndex(vertices_begin + 1), AsMeshIndex(vertices_begin + 3),
       AsMeshIndex(vertices_begin + 3), AsMeshIndex(vertices_begin + 1),
       AsMeshIndex(vertices_begin + 2) >>

VARIABLES
    pc,                    \* position in Font::new / draw_text
    error,                 \* what aborted the call, "" if nothing did
    face, size, characters,\* arguments of Font::new
    hb_ppem,               \* scale given to hb_font.set_ppem
    ft_char_size,          \* arguments given to ft_face.set_char_size
    glyphs,                \* Vec of (key, bitmap)
    glyph_atlas_extent,    \* gfx::Extent3d
    glyph_atlas_buffer,
    glyph_atlas_vertices,
    glyph_atlas_indices,
    glyph_map,             \* HashMap<u32, MeshIndexRange>
    gpu,                   \* GPU resources created so far, in creation order
    shaped,                \* output of shaping the text
    cmds,                  \* commands recorded on the render pass
    cursor_pos,            \* pen of draw_text
    index_probe            \* a list position and the indices emitted for it

fontVars == <<index_probe, face, size, characters, hb_ppem, ft_char_size, glyphs, glyph_atlas_extent,
              glyph_atlas_buffer, glyph_atlas_vertices, glyph_atlas_indices, glyph_map, gpu>>
drawVars == <<shaped, cmds, cursor_pos>>
vars == <<pc, error, fontVars, drawVars>>

NoExtent == [width |-> 0, height |-> 0, depth |-> 0]

Init ==
    /\ pc = "new"
    /\ error = ""
    /\ face \in Faces
    /\ size \in Sizes
    /\ characters \in SeqsUpTo(Chars, MaxChars)
    /\ hb_ppem = 0
    /\ ft_char_size = <<>>
    /\ glyphs = <<>>
    /\ glyph_atlas_extent = NoExtent
    /\ glyph_atlas_buffer = <<>>
    /\ glyph_atlas_vertices = <<>>
    /\ glyph_atlas_indices = <<>>
    /\ glyph_map = EmptyMap
    /\ gpu = <<>>
    /\ shaped = <<>>
    /\ cmds = <<>>
    /\ cursor_pos = VZero
    /\ index_probe = [i |-> 0, indices |-> <<>>]

\* font.rs:371-379, set_char_size succeeds.
SetupFont ==
    /\ pc = "new"
    /\ set_char_size_ok(face)
    /\ hb_ppem' = (size * RESOLUTION) \div 72
    /\ ft_char_size' = <<0, size, 0, RESOLUTION>>
    /\ pc' = "load"
    /\ UNCHANGED <<error, index_probe, face, size, characters, glyphs, glyph_atlas_extent,
                   glyph_atlas_buffer, glyph_atlas_vertices, glyph_atlas_indices,
                   glyph_map, gpu, drawVars>>

\* font.rs:377-379, set_char_size(..).unwrap() on an Err.
SetupFontPanics ==
    /\ pc = "new"
    /\ ~set_char_size_ok(face)
    /\ hb_ppem' = (size * RESOLUTION) \div 72
    /\ pc' = "panicked"
    /\ error' = "set_char_size"
    /\ UNCHANGED <<index_probe, face, size, characters, ft_char_size, glyphs, glyph_atlas_extent,
                   glyph_atlas_buffer, glyph_atlas_vertices, glyph_atlas_indices,
                   glyph_map, gpu, drawVars>>

\* font.rs:381-386, one iteration of the loading loop.
LoadChar ==
    /\ pc = "load"
    /\ Len(glyphs) < Len(characters)
    /\ LET c == characters[Len(glyphs) + 1] IN
         /\ load_char_ok(face, c)
         /\ glyphs' = Append(glyphs, [key |-> c, bitmap |-> Bitmap(face, c)])
    /\ UNCHANGED <<pc, error, index_probe, face, size, characters, hb_ppem, ft_char_size,
                   glyph_atlas_extent, glyph_atlas_buffer, glyph_atlas_vertices,
                   glyph_atlas_indices, glyph_map, gpu, drawVars>>

\* font.rs:382-384, the Err of load_char dropped and the stale glyph slot kept.
LoadCharIgnoresError ==
    /\ pc = "load"
    /\ Len(glyphs) < Len(characters)
    /\ LET c == characters[Len(glyphs) + 1] IN
         /\ ~load_char_ok(face, c)
         /\ glyphs' = Append(glyphs, [key |-> c, bitmap |-> [width |-> 0, rows |-> 0, buffer |-> <<>>]])
    /\ UNCHANGED <<pc, error, index_probe, face, size, characters, hb_ppem, ft_char_size,
                   glyph_atlas_extent, glyph_atlas_buffer, glyph_atlas_vertices,
                   glyph_atlas_indices, glyph_map, gpu, drawVars>>

\* font.rs:382-384, load_char(..).unwrap() on an Err.
LoadCharPanics ==
    /\ pc = "load"
    /\ Len(glyphs) < Len(characters)
    /\ ~load_char_ok(face, characters[Len(glyphs) + 1])
    /\ pc' = "panicked"
    /\ error' = "load_char"
    /\ UNCHANGED <<fontVars, drawVars>>

\* font.rs:389, the first glyph's width instead of the widest.
glyph_atlas_width_first(gs) == gs[1].bitmap.width
\* font.rs:389
glyph_atlas_width(gs)  == MaxOf({gs[j].bitmap.width : j \in 1..Len(gs)})
\* font.rs:390
glyph_atlas_height(gs) == MaxOf({gs[j].bitmap.rows : j \in 1..Len(gs)})

\* font.rs:389-403, the atlas extent and the empty buffers.
CreateAtlas ==
    /\ pc = "load"
    /\ Len(glyphs) = Len(characters)
    /\ glyphs # <<>>
    /\ LET glyph_atlas_depth            == Len(characters)
           glyph_atlas_slice_byte_count == glyph_atlas_width(glyphs) * glyph_atlas_height(glyphs)
           glyph_atlas_byte_count       == glyph_atlas_slice_byte_count * glyph_atlas_depth
       IN  /\ glyph_atlas_extent' = [width  |-> glyph_atlas_width(glyphs),
                                     height |-> glyph_atlas_height(glyphs),
                                     depth  |-> glyph_atlas_depth]
           /\ glyph_atlas_buffer' = Zeros(glyph_atlas_byte_count)
    /\ glyph_atlas_vertices' = <<>>
    /\ glyph_atlas_indices' = <<>>
    /\ glyph_map' = EmptyMap
    /\ pc' = "pack"
    /\ UNCHANGED <<error, index_probe, face, size, characters, hb_ppem, ft_char_size, glyphs, gpu, drawVars>>

\* font.rs:389, max() of an empty iterator is None and unwrap() panics.
CreateAtlasPanics ==
    /\ pc = "load"
    /\ Len(glyphs) = Len(characters)
    /\ glyphs = <<>>
    /\ pc' = "panicked"
    /\ error' = "unwrap_none"
    /\ UNCHANGED <<fontVars, drawVars>>

\* font.rs:431-432, ranges stepping by the vertex count instead of the index count.
IndexRangeOverlapping(i) == <<i * 4, i * 4 + 6>>
\* font.rs:431-432, indices_begin..indices_end of the glyph at position i.
IndexRange(i) == <<i * 6, i * 6 + 6>>

\* font.rs:404-434, one iteration of the packing loop; i counts from 0.
PackGlyphAt(i) ==
    LET c == glyphs[i + 1].key
        g == glyphs[i + 1].bitmap
        glyph_atlas_slice_byte_count == glyph_atlas_extent.width * glyph_atlas_extent.height
        range_begin    == i * glyph_atlas_slice_byte_count
        vertices_begin == AsMeshIndex(i * 4)
    IN  /\ glyph_atlas_buffer' = CopyFromSlice(glyph_atlas_buffer, range_begin, g.buffer)
        /\ glyph_atlas_vertices' = glyph_atlas_vertices \o
               QuadVertices(g.width, g.rows, glyph_atlas_extent.width,
                            glyph_atlas_extent.height, i)
        /\ glyph_atlas_indices' = glyph_atlas_indices \o QuadIndices(vertices_begin)
        /\ glyph_map' = Insert(glyph_map, c, IndexRange(i))

PackGlyph ==
    /\ pc = "pack"
    /\ Len(glyph_atlas_indices) < 6 * Len(glyphs)
    /\ PackGlyphAt(Len(glyph_atlas_indices) \div 6)
    /\ UNCHANGED <<pc, error, index_probe, face, size, characters, hb_ppem, ft_char_size, glyphs,
                   glyph_atlas_extent, gpu, drawVars>>

\* font.rs:436-475, texture, upload, view, sampler, bind group, mesh, Font.
CreateGpuResources ==
    /\ pc = "pack"
    /\ Len(glyph_atlas_indices) = 6 * Len(glyphs)
    /\ gpu' = <<"texture", "write", "texture_view", "sampler", "bind_group", "mesh">>
    /\ pc' = "ready"
    /\ UNCHANGED <<error, index_probe, face, size, characters, hb_ppem, ft_char_size, glyphs,
                   glyph_atlas_extent, glyph_atlas_buffer, glyph_atlas_vertices,
                   glyph_atlas_indices, glyph_map, drawVars>>

\* ------------------------------------------------------ the shaping engine
XAdvance(f, c) == 64 * c + 32 * (c % 2)
YAdvance(f, c) == IF f = "offset" THEN 16 ELSE 0
XOffset(f, c)  == 8 * (c - 2)
YOffset(f, c)  == IF c % 3 = 0 THEN -24 ELSE 0

\* hb::shape: one glyph per character, named by the face's glyph id, with
\* positions in 26.6 fixed point.
shape_text(f, text) ==
    [j \in 1..Len(text) |->
        [codepoint |-> char_index(f, text[j]),
         x_advance |-> XAdvance(f, text[j]),
         y_advance |-> YAdvance(f, text[j]),
         x_offset  |-> XOffset(f, text[j]),
         y_offset  |-> YOffset(f, text[j])]]

\* 26.6 fixed point to floating pixels.
i26dot6_to_fpoint(x) == Frac(x, 64)

\* Bearing (left, -top) of the glyph rasterized in a slot.
Bearing(slot) ==
    LET c == characters[slot + 1]
    IN  <<FInt(BitmapLeft(face, c)), FInt(-BitmapTop(face, c))>>

\* Font::glyph_info: the lookup entry (index range, bearing) of a glyph id.
has_glyph_info(id) == id \in DOMAIN glyph_map
glyph_info(id) == <<glyph_map[id], Bearing(glyph_map[id][1] \div 6)>>

Cmd(op, arg) == [op |-> op, arg |-> arg]

\* text_renderer.rs:284-293, shaping and the per-call bindings, on a fresh
\* render pass.
DrawTextBegin ==
    /\ pc = "ready"
    /\ \E text \in SeqsUpTo(Chars, MaxText) : shaped' = shape_text(face, text)
    /\ cmds' = << Cmd("set_pipeline", "pipeline"),
                  Cmd("set_bind_group", "uniform_constants"),
                  Cmd("set_index_buffer", "index_buffer"),
                  Cmd("set_vertex_buffer", "vertex_buffer") >>
    /\ cursor_pos' = VZero
    /\ pc' = "drawing"
    /\ UNCHANGED <<error, fontVars>>

\* Number of loop iterations of draw_text completed so far.
Drawn == (Len(cmds) - 4) \div 2

\* text_renderer.rs:305-309, the pen advanced before the glyph's offset is taken.
DrawGlyphBodyAdvanceFirst(position, info) ==
    LET entry   == glyph_info(info.codepoint)
        range   == entry[1]
        bearing == entry[2]
        pen     == <<FAdd(cursor_pos[1], i26dot6_to_fpoint(position.x_advance)),
                     FAdd(cursor_pos[2], i26dot6_to_fpoint(position.y_advance))>>
        offset  == VAdd(VAdd(pen, bearing),
                        <<i26dot6_to_fpoint(position.x_offset),
                          i26dot6_to_fpoint(position.y_offset)>>)
        pcs     == [transform |-> "transform", glyph_offset |-> offset, color |-> "WHITE"]
    IN  /\ cmds' = cmds \o << Cmd("set_push_constants", pcs), Cmd("draw_indexed", range) >>
        /\ cursor_pos' = pen

\* text_renderer.rs:305-306, the draw issued before its push constants.
DrawGlyphBodyDrawFirst(position, info) ==
    LET entry   == glyph_info(info.codepoint)
        range   == entry[1]
        bearing == entry[2]
        offset  == VAdd(VAdd(cursor_pos, bearing),
                        <<i26dot6_to_fpoint(position.x_offset),
                          i26dot6_to_fpoint(position.y_offset)>>)
        pcs     == [transform |-> "transform", glyph_offset |-> offset, color |-> "WHITE"]
    IN  /\ cmds' = cmds \o << Cmd("draw_indexed", range), Cmd("set_push_constants", pcs) >>
        /\ cursor_pos' = <<FAdd(cursor_pos[1], i26dot6_to_fpoint(position.x_advance)),
                           FAdd(cursor_pos[2], i26dot6_to_fpoint(position.y_advance))>>

\* text_renderer.rs:295-309, the body of the loop for one shaped glyph.
DrawGlyphBody(position, info) ==
    LET entry   == glyph_info(info.codepoint)
        range   == entry[1]
        bearing == entry[2]
        offset  == VAdd(VAdd(cursor_pos, bearing),
                        <<i26dot6_to_fpoint(position.x_offset),
                          i26dot6_to_fpoint(position.y_offset)>>)
        pcs     == [transform |-> "transform", glyph_offset |-> offset, color |-> "WHITE"]
    IN  /\ cmds' = cmds \o << Cmd("set_push_constants", pcs), Cmd("draw_indexed", range) >>
        /\ cursor_pos' = <<FAdd(cursor_pos[1], i26dot6_to_fpoint(position.x_advance)),
                           FAdd(cursor_pos[2], i26dot6_to_fpoint(position.y_advance))>>

DrawGlyph ==
    /\ pc = "drawing"
    /\ Drawn < Len(shaped)
    /\ has_glyph_info(shaped[Drawn + 1].codepoint)
    /\ DrawGlyphBody(shaped[Drawn + 1], shaped[Drawn + 1])
    /\ UNCHANGED <<pc, error, fontVars, shaped>>

\* text_renderer.rs:295-305, the lookup made only after the push constants are set.
DrawGlyphPanicsLate ==
    /\ pc = "drawing"
    /\ Drawn < Len(shaped)
    /\ ~has_glyph_info(shaped[Drawn + 1].codepoint)
    /\ cmds' = Append(cmds, Cmd("set_push_constants", "stale"))
    /\ pc' = "panicked"
    /\ error' = "glyph_lookup"
    /\ UNCHANGED <<fontVars, shaped, cursor_pos>>

\* text_renderer.rs:295, the lookup of an id that has no entry aborts the call.
DrawGlyphPanics ==
    /\ pc = "drawing"
    /\ Drawn < Len(shaped)
    /\ ~has_glyph_info(shaped[Drawn + 1].codepoint)
    /\ pc' = "panicked"
    /\ error' = "glyph_lookup"
    /\ UNCHANGED <<fontVars, drawVars>>

\* text_renderer.rs:294,310-311, the run is exhausted and draw_text returns.
DrawTextEnd ==
    /\ pc = "drawing"
    /\ Drawn = Len(shaped)
    /\ pc' = "drawn"
    /\ UNCHANGED <<error, fontVars, drawVars>>

Next ==
    \/ SetupFont
    \/ SetupFontPanics
    \/ LoadChar
    \/ LoadCharPanics
    \/ CreateAtlas
    \/ CreateAtlasPanics
    \/ PackGlyph
    \/ CreateGpuResources
    \/ DrawTextBegin
    \/ DrawGlyph
    \/ DrawGlyphPanics
    \/ DrawTextEnd

Spec == Init /\ [][Next]_vars
\* ------------------------------------------------------------ properties
\* Font::new has returned a Font.
FontBuilt == gpu # <<>>
\* Number of glyphs the packing loop has processed.
Packed == Len(glyph_atlas_indices) \div 6

\* C3: for a non-empty list the atlas extent is (widest bitmap, tallest bitmap,
\* number of listed characters) and the buffer has width * height * depth bytes.
C3_AtlasExtent ==
    pc \in {"pack", "ready", "drawing", "drawn"} =>
        LET e == glyph_atlas_extent
            rasterized == {Bitmap(face, characters[j]) : j \in 1..Len(characters)}
        IN  /\ characters # <<>>
            /\ \E b \in rasterized : e.width = b.width
            /\ \A b \in rasterized : e.width >= b.width
            /\ \E b \in rasterized : e.height = b.rows
            /\ \A b \in rasterized : e.height >= b.rows
            /\ e.depth = Len(characters)
            /\ Len(glyphs) = Len(characters)
            /\ Len(glyph_atlas_buffer) = e.width * e.height * e.depth

\* A Font built from a list whose first glyph is narrower than a later one.
C3_Witness ==
    /\ FontBuilt
    /\ Len(characters) >= 2
    /\ glyphs[1].bitmap.width < glyph_atlas_extent.width
    /\ glyphs[2].bitmap.rows < glyph_atlas_extent.height

\* C4: position i owns indices [6i, 6i+6) and vertices [4i, 4i+4); the mesh holds
\* 4n vertices and 6n indices, and ranges of different positions are disjoint.
C4_MeshRanges ==
    pc \in {"pack", "ready", "drawing", "drawn"} =>
        /\ Len(glyph_atlas_vertices) = 4 * Packed
        /\ Len(glyph_atlas_indices) = 6 * Packed
        /\ FontBuilt => Packed = Len(characters)
        /\ \A i \in 0..(Packed - 1) :
              \* the quad of position i sits at vertices 4i..4i+3
              /\ \A v \in 1..4 :
                    glyph_atlas_vertices[4 * i + v] =
                        QuadVertices(glyphs[i + 1].bitmap.width, glyphs[i + 1].bitmap.rows,
                                     glyph_atlas_extent.width, glyph_atlas_extent.height, i)[v]
              \* the range recorded for position i, unless a later position took the key
              /\ (\A j \in (i + 1)..(Packed - 1) : glyphs[j + 1].key # glyphs[i + 1].key)
                    => glyph_map[glyphs[i + 1].key] = <<6 * i, 6 * i + 6>>
        /\ \A k1, k2 \in DOMAIN glyph_map :
              k1 # k2 => \/ glyph_map[k1][2] <= glyph_map[k2][1]
                         \/ glyph_map[k2][2] <= glyph_map[k1][1]
        /\ \A k1 \in DOMAIN glyph_map :
              /\ glyph_map[k1][2] <= Len(glyph_atlas_indices)
              /\ glyph_map[k1][2] = glyph_map[k1][1] + 6

\* A Font of two distinct characters.
C4_Witness ==
    /\ FontBuilt
    /\ Len(characters) = 2
    /\ Cardinality(DOMAIN glyph_map) = 2
\* C1: every listed character's entry is keyed by the glyph id the shaping engine
\* emits for it, so the shaped glyph of c resolves to the slot c was rasterized in.
C1_KeyIsShapedGlyphId ==
    FontBuilt =>
        \A i \in 1..Len(characters) :
            LET id == shape_text(face, <<characters[i]>>)[1].codepoint
            IN  /\ glyphs[i].key = id
                /\ id \in DOMAIN glyph_map
                /\ characters[(glyph_map[id][1] \div 6) + 1] = characters[i]

\* C2: atlas byte layer*(W*H) + row*W + col is glyph pixel row*gw + col for
\* row < gh, col < gw, and every other atlas byte is zero.
C2_AtlasRowMajor ==
    FontBuilt =>
        LET W == glyph_atlas_extent.width
            H == glyph_atlas_extent.height
        IN  \A off \in 0..(Len(glyph_atlas_buffer) - 1) :
                LET i   == off \div (W * H)
                    row == (off % (W * H)) \div W
                    col == off % W
                    g   == glyphs[i + 1].bitmap
                IN  glyph_atlas_buffer[off + 1] =
                        IF row < g.rows /\ col < g.width
                        THEN g.buffer[row * g.width + col + 1] ELSE 0

\* C5: an empty character list ends Font::new with an EmptyCharacterSetError
\* returned as a typed result, before any GPU resource exists.
C5_EmptyListTypedError ==
    (characters = <<>> /\ pc \notin {"new", "load"}) =>
        /\ pc = "returned_err"
        /\ error = "EmptyCharacterSetError"
        /\ gpu = <<>>

DrawCmds == SelectSeq(cmds, LAMBDA c : c.op = "draw_indexed")
PushCmds == SelectSeq(cmds, LAMBDA c : c.op = "set_push_constants")

\* C6: a lookup failure at the k-th shaped glyph leaves exactly the k draws of the
\* glyphs before it on the render pass and nothing for glyph k or later.
C6_PartialRunStands ==
    (pc = "panicked" /\ error = "glyph_lookup") =>
        \E k \in 0..(Len(shaped) - 1) :
            /\ shaped[k + 1].codepoint \notin DOMAIN glyph_map
            /\ \A j \in 1..k : shaped[j].codepoint \in DOMAIN glyph_map
            /\ Len(DrawCmds) = k
            /\ Len(PushCmds) = k
            /\ Len(cmds) = 4 + 2 * k
            /\ \A j \in 1..k : DrawCmds[j].arg = glyph_map[shaped[j].codepoint]

\* A lookup failure after at least one glyph was drawn.
C6_Witness ==
    /\ pc = "panicked"
    /\ error = "glyph_lookup"
    /\ Len(DrawCmds) >= 1

\* C7: when a listed character fails to load, Font::new aborts on that error and
\* no Font, GPU resource, atlas buffer, mesh or lookup table is ever built.
C7_AllOrNothing ==
    /\ (\E j \in 1..Len(characters) : ~load_char_ok(face, characters[j])) =>
          /\ pc \in {"new", "load", "panicked"}
          /\ (pc = "panicked" /\ set_char_size_ok(face)) => error = "load_char"
    /\ pc \in {"new", "load", "panicked"} /\ error # "glyph_lookup" =>
          /\ gpu = <<>>
          /\ glyph_atlas_buffer = <<>>
          /\ glyph_atlas_vertices = <<>>
          /\ glyph_atlas_indices = <<>>
          /\ glyph_map = EmptyMap
          /\ cmds = <<>>

\* A load failure after an earlier character of the list was rasterized.
C7_Witness ==
    /\ pc = "panicked"
    /\ error = "load_char"
    /\ Len(glyphs) >= 1

\* C8: size 0 fails the construction with an InvalidSizeError; nothing is
\* rasterized and no Font is produced.
C8_ZeroSizeRejected ==
    size = 0 =>
        /\ glyphs = <<>>
        /\ ~FontBuilt
        /\ pc \notin {"new", "load"} => (pc = "returned_err" /\ error = "InvalidSizeError")

\* C9: pipeline, bind group, index buffer and vertex buffer are set once, first;
\* then per shaped glyph, in order, one set_push_constants and one draw_indexed
\* with the glyph's looked-up range; a finished call has one draw per glyph.
C9_CommandSequence ==
    (pc \in {"drawing", "drawn"} \/ (pc = "panicked" /\ error = "glyph_lookup")) =>
        /\ Len(cmds) >= 4
        /\ <<cmds[1].op, cmds[2].op, cmds[3].op, cmds[4].op>> =
               <<"set_pipeline", "set_bind_group", "set_index_buffer", "set_vertex_buffer">>
        /\ Len(cmds) = 4 + 2 * Drawn
        /\ Drawn <= Len(shaped)
        /\ \A j \in 1..Drawn :
              /\ cmds[3 + 2 * j].op = "set_push_constants"
              /\ cmds[4 + 2 * j].op = "draw_indexed"
              /\ cmds[4 + 2 * j].arg = glyph_map[shaped[j].codepoint]
        /\ pc = "drawn" => Len(DrawCmds) = Len(shaped)

\* A finished call that drew two different glyphs.
C9_Witness ==
    /\ pc = "drawn"
    /\ Len(shaped) = 2
    /\ Len(DrawCmds) = 2
    /\ DrawCmds[1].arg # DrawCmds[2].arg

RECURSIVE SumAdvance(_, _)
SumAdvance(k, field) ==
    IF k = 0 THEN 0 ELSE SumAdvance(k - 1, field) + shaped[k][field]
PenAfter(k) == <<Frac(SumAdvance(k, "x_advance"), 64), Frac(SumAdvance(k, "y_advance"), 64)>>

ft_ppem_26_6(char_size) == (char_size[2] * char_size[4]) \div 72

\* C11: rasterizer and shaper are configured with the same scale: both
\* correspond to ppem = fixed26_6(size) * resolution / 72, size * 64 being the
\* 26.6 form of the size.
C11_SameScale ==
    ft_char_size # <<>> =>
        LET ppem == (size * 64 * RESOLUTION) \div 72
        IN  /\ ft_ppem_26_6(ft_char_size) = ppem
            /\ hb_ppem = ppem \div 64
\* Some key is produced by two positions of the character list.
HasDuplicateKey ==
    \E i, j \in 1..Len(glyphs) : i < j /\ glyphs[i].key = glyphs[j].key

\* C12: positions sharing a lookup key are each rasterized and meshed, the
\* construction does not fail, the key's single entry holds the range of the
\* last such position, and the table has at most one entry per position.
C12_DuplicateKeys ==
    /\ FontBuilt =>
          /\ glyph_atlas_extent.depth = Len(characters)
          /\ Len(glyphs) = Len(characters)
          /\ Len(glyph_atlas_vertices) = 4 * Len(characters)
          /\ Len(glyph_atlas_indices) = 6 * Len(characters)
          /\ Cardinality(DOMAIN glyph_map) <= Len(characters)
          /\ \A i, j \in 0..(Len(glyphs) - 1) :
                (/\ i < j
                 /\ glyphs[i + 1].key = glyphs[j + 1].key
                 /\ \A l \in (j + 1)..(Len(glyphs) - 1) : glyphs[l + 1].key # glyphs[j + 1].key)
                    => glyph_map[glyphs[j + 1].key] = <<6 * j, 6 * j + 6>>
    /\ (/\ HasDuplicateKey
        /\ set_char_size_ok(face)
        /\ \A l \in 1..Len(characters) : load_char_ok(face, characters[l])
        /\ pc = "panicked") => error = "glyph_lookup"

\* A Font built from a list that names the same character twice.
C12_Witness ==
    /\ FontBuilt
    /\ HasDuplicateKey
\* The k-th triangle (1 or 2) of position i, as three mesh indices.
Triangle(i, k) == [v \in 1..3 |-> glyph_atlas_indices[6 * i + 3 * (k - 1) + v]]
\* Pixel coordinates of a mesh vertex (quad corners are whole pixels).
VertexXY(v) == <<glyph_atlas_vertices[v + 1].position[1][1],
                 glyph_atlas_vertices[v + 1].position[2][1]>>
\* Twice the signed area of the triangle a, b, c; negative when the corners
\* turn counter-clockwise as seen with y growing downward.
Cross2(a, b, c) == (b[1] - a[1]) * (c[2] - a[2]) - (c[1] - a[1]) * (b[2] - a[2])
TriangleArea2(t) == Cross2(VertexXY(t[1]), VertexXY(t[2]), VertexXY(t[3]))
LocalVertices(i, t) == {t[v] - 4 * i : v \in 1..3}

\* The quad of position i is split along the diagonal joining local vertices
\* d1 and d2 into two counter-clockwise triangles that cover it exactly once.
SplitsQuadAlong(i, d1, d2) ==
    LET g   == glyphs[i + 1].bitmap
        t1  == Triangle(i, 1)
        t2  == Triangle(i, 2)
        o1  == CHOOSE v \in (0..3) \ {d1, d2} : TRUE
        o2  == CHOOSE v \in (0..3) \ {d1, d2, o1} : TRUE
        a   == VertexXY(4 * i + d1)
        b   == VertexXY(4 * i + d2)
    IN  /\ [v \in 0..3 |-> VertexXY(4 * i + v)] =
               [v \in 0..3 |-> CASE v = 0 -> <<0, 0>>
                                 [] v = 1 -> <<0, g.rows>>
                                 [] v = 2 -> <<g.width, g.rows>>
                                 [] v = 3 -> <<g.width, 0>>]
        /\ LocalVertices(i, t1) \cap LocalVertices(i, t2) = {d1, d2}
        /\ LocalVertices(i, t1) \cup LocalVertices(i, t2) = 0..3
        /\ TriangleArea2(t1) = -(g.width * g.rows)
        /\ TriangleArea2(t2) = -(g.width * g.rows)
        /\ Cross2(a, b, VertexXY(4 * i + o1)) * Cross2(a, b, VertexXY(4 * i + o2))
               = -((g.width * g.rows) * (g.width * g.rows))

\* C13 as stated: the two triangles of every position share the diagonal from
\* vertex 0 to vertex 2.
C13_DiagonalZeroTwo ==
    pc \in {"pack", "ready", "drawing", "drawn"} =>
        \A i \in 0..(Packed - 1) : SplitsQuadAlong(i, 0, 2)

\* C13 amended: the 6 indices at [6i, 6i+6) form two counter-clockwise triangles
\* over vertices 4i..4i+3 that share the diagonal from vertex 1 to vertex 3 and
\* cover the quad exactly once.
C13_DiagonalOneThree ==
    pc \in {"pack", "ready", "drawing", "drawn"} =>
        \A i \in 0..(Packed - 1) : SplitsQuadAlong(i, 1, 3)

\* A Font whose second quad has a non-empty area.
C13_Witness ==
    /\ FontBuilt
    /\ Len(glyphs) = 2
    /\ glyphs[2].bitmap.width * glyphs[2].bitmap.rows > 0
\* The bytes of atlas array layer i.
Layer(i) ==
    LET n == glyph_atlas_extent.width * glyph_atlas_extent.height
    IN  [k \in 1..n |-> glyph_atlas_buffer[i * n + k]]

\* C14: for every position i of the character list, atlas layer i holds the
\* bitmap rasterized for characters[i], the vertices 4i..4i+3 select layer i,
\* and the lookup entry written for position i is [6i, 6i+6).
C14_SlotConsistency ==
    pc \in {"pack", "ready", "drawing", "drawn"} =>
        \A i \in 0..(Packed - 1) :
            LET c == characters[i + 1]
            IN  /\ glyphs[i + 1].key = c
                /\ SelectSeq(Layer(i), LAMBDA b : b # 0) = Bitmap(face, c).buffer
                /\ \A v \in 1..4 :
                      glyph_atlas_vertices[4 * i + v].texture_coordinates[3] = i
                /\ (\A j \in (i + 1)..(Packed - 1) : characters[j + 1] # c)
                      => glyph_map[c] = <<6 * i, 6 * i + 6>>

\* A Font of two different characters with non-empty bitmaps.
C14_Witness ==
    /\ FontBuilt
    /\ Len(characters) = 2
    /\ characters[1] # characters[2]
    /\ glyphs[1].bitmap.buffer # <<>>
    /\ glyphs[2].bitmap.buffer # <<>>
\* ------------------------------------------- the indices of far positions
\* The packing loop's index computation at position i of a list long enough
\* to have one, without the (unbounded) list itself.
IndexInit ==
    /\ pc = "index"
    /\ error = ""
    /\ face = "identity"
    /\ size = 1
    /\ characters = <<>>
    /\ hb_ppem = 0
    /\ ft_char_size = <<>>
    /\ glyphs = <<>>
    /\ glyph_atlas_extent = NoExtent
    /\ glyph_atlas_buffer = <<>>
    /\ glyph_atlas_vertices = <<>>
    /\ glyph_atlas_indices = <<>>
    /\ glyph_map = EmptyMap
    /\ gpu = <<>>
    /\ shaped = <<>>
    /\ cmds = <<>>
    /\ cursor_pos = VZero
    /\ \E i \in 0..MaxPosition : index_probe = [i |-> i, indices |-> <<>>]

\* font.rs:421-429 at position index_probe.i.
EmitQuadIndices ==
    /\ pc = "index"
    /\ index_probe.indices = <<>>
    /\ index_probe' = [index_probe EXCEPT !.indices = QuadIndices(AsMeshIndex(index_probe.i * 4))]
    /\ UNCHANGED <<pc, error, face, size, characters, hb_ppem, ft_char_size, glyphs,
                   glyph_atlas_extent, glyph_atlas_buffer, glyph_atlas_vertices,
                   glyph_atlas_indices, glyph_map, gpu, drawVars>>

IndexNext == EmitQuadIndices
IndexSpec == IndexInit /\ [][IndexNext]_vars

\* C15: the six 16-bit index values stored for position i lie in [4i, 4i+4).
C15_IndicesStayInQuad ==
    \A v \in 1..Len(index_probe.indices) :
        /\ index_probe.indices[v] >= 4 * index_probe.i
        /\ index_probe.indices[v] < 4 * index_probe.i + 4
====
